---- MODULE Spec2Model ----
(***************************************************************************)
(* A model of pl-lld_chxr (src/lld_chxr.py): the tag-spec parser           *)
(* tagInfo_to_tagStruct, the validation analyze_measurements with its      *)
(* helper similar, and the loop of main that validates every input file,   *)
(* copies the sibling files on success and writes the verdict.             *)
(*                                                                         *)
(* A Python str is a sequence of one-character strings; a dict is the      *)
(* sequence of its items [k, v] in insertion order; a float read from a    *)
(* decimal text is the exact fraction [num, den].                          *)
(***************************************************************************)
EXTENDS Integers, Sequences, FiniteSets

(***************************************************************************)
(* Characters and the str methods the program calls                        *)
(***************************************************************************)

UPPER == <<"A", "B", "C", "D", "E", "F", "G", "H", "I", "J", "K", "L", "M",
           "N", "O", "P", "Q", "R", "S", "T", "U", "V", "W", "X", "Y", "Z">>

LOWER == <<"a", "b", "c", "d", "e", "f", "g", "h", "i", "j", "k", "l", "m",
           "n", "o", "p", "q", "r", "s", "t", "u", "v", "w", "x", "y", "z">>

DIGITS == <<"0", "1", "2", "3", "4", "5", "6", "7", "8", "9">>

Range(s) == {s[i] : i \in DOMAIN s}

IsDigit(c) == c \in Range(DIGITS)

\* \w of the re module: letters, digits and the underscore
IsWord(c) == c \in Range(UPPER) \cup Range(LOWER) \cup Range(DIGITS) \cup {"_"}

IsSpace(c) == c \in {" ", "\t", "\n"}

\* str.lower() on one character
LowerChar(c) ==
    IF c \in Range(UPPER)
    THEN LOWER[CHOOSE i \in DOMAIN UPPER : UPPER[i] = c]
    ELSE c

\* str.lower()
lower(s) == [i \in DOMAIN s |-> LowerChar(s[i])]

\* the value of one decimal digit
DigitValue(c) == (CHOOSE i \in DOMAIN DIGITS : DIGITS[i] = c) - 1

\* s[i:j] of Python written with 1-based inclusive ends: s[from..to]
Slice(s, from, to) == IF from > to THEN <<>> ELSE SubSeq(s, from, to)

\* s starts with t at (1-based) position i
StartsAt(s, t, i) ==
    /\ i + Len(t) - 1 <= Len(s)
    /\ \A k \in 1..Len(t) : s[i + k - 1] = t[k]

\* str.find: the first position at or after from where sep occurs, 0 if none
Find(s, sep, from) ==
    IF \E i \in from..Len(s) : StartsAt(s, sep, i)
    THEN CHOOSE i \in from..Len(s) :
            /\ StartsAt(s, sep, i)
            /\ \A j \in from..(i - 1) : ~StartsAt(s, sep, j)
    ELSE 0

\* str.split(sep) for a non-empty sep: the pieces between the occurrences of
\* sep, found left to right without overlap
RECURSIVE split(_, _)
split(s, sep) ==
    LET p == Find(s, sep, 1)
    IN  IF p = 0
        THEN <<s>>
        ELSE <<Slice(s, 1, p - 1)>> \o split(Slice(s, p + Len(sep), Len(s)), sep)

\* str.strip(): drop the leading and trailing whitespace
RECURSIVE strip(_)
strip(s) ==
    IF s = <<>> THEN s
    ELSE IF IsSpace(s[1]) THEN strip(Tail(s))
    ELSE IF IsSpace(s[Len(s)]) THEN strip(Slice(s, 1, Len(s) - 1))
    ELSE s

\* lstrip = lambda l: [x.strip() for x in l]
lstrip(l) == [i \in DOMAIN l |-> strip(l[i])]

\* str.split() without argument: the maximal runs of non-whitespace
RECURSIVE split_ws(_)
split_ws(s) ==
    IF s = <<>> THEN <<>>
    ELSE IF IsSpace(s[1]) THEN split_ws(Tail(s))
    ELSE LET stop == IF \E i \in DOMAIN s : IsSpace(s[i])
                     THEN (CHOOSE i \in DOMAIN s :
                              /\ IsSpace(s[i])
                              /\ \A j \in 1..(i - 1) : ~IsSpace(s[j])) - 1
                     ELSE Len(s)
         IN  <<Slice(s, 1, stop)>> \o split_ws(Slice(s, stop + 1, Len(s)))

\* str.replace(c, ''): drop every occurrence of the character c
replace_char(s, c) == SelectSeq(s, LAMBDA x : x # c)

(***************************************************************************)
(* similar: difflib.SequenceMatcher(None, a.lower(), b.lower()).ratio()    *)
(***************************************************************************)

\* the length of the common run of a and b that starts at a[i], b[j] and stays
\* inside a[..ahi], b[..bhi]
RECURSIVE RunLen(_, _, _, _, _, _)
RunLen(a, b, i, j, ahi, bhi) ==
    IF i <= ahi /\ j <= bhi /\ a[i] = b[j]
    THEN 1 + RunLen(a, b, i + 1, j + 1, ahi, bhi)
    ELSE 0

\* SequenceMatcher.find_longest_match(alo, ahi, blo, bhi) without junk: the
\* longest common block, of those the one starting earliest in a, of those the
\* one starting earliest in b.  <<i, j, k>>, k = 0 when nothing matches.
find_longest_match(a, b, alo, ahi, blo, bhi) ==
    LET P  == (alo..ahi) \X (blo..bhi)
        rl == [p \in P |-> RunLen(a, b, p[1], p[2], ahi, bhi)]
        Before(p, q) == \/ rl[p] > rl[q]
                        \/ /\ rl[p] = rl[q]
                           /\ \/ p[1] < q[1]
                              \/ p[1] = q[1] /\ p[2] <= q[2]
    IN  IF P = {} THEN <<alo, blo, 0>>
        ELSE LET best == CHOOSE p \in P : \A q \in P : Before(p, q)
             IN  <<best[1], best[2], rl[best]>>

\* the sum of the sizes of SequenceMatcher.get_matching_blocks(): the longest
\* block, then the same to its left and to its right
RECURSIVE matching_size(_, _, _, _, _, _)
matching_size(a, b, alo, ahi, blo, bhi) ==
    LET m == find_longest_match(a, b, alo, ahi, blo, bhi)
    IN  IF m[3] = 0 THEN 0
        ELSE m[3]
             + (IF alo < m[1] /\ blo < m[2]
                THEN matching_size(a, b, alo, m[1] - 1, blo, m[2] - 1) ELSE 0)
             + (IF m[1] + m[3] <= ahi /\ m[2] + m[3] <= bhi
                THEN matching_size(a, b, m[1] + m[3], ahi, m[2] + m[3], bhi) ELSE 0)

\* ratio() = 2.0 * matches / (len(a) + len(b)), 1.0 when both are empty, kept
\* as the fraction [num, den]
similar(a, b) ==
    LET la == lower(a)
        lb == lower(b)
        matches == matching_size(la, lb, 1, Len(la), 1, Len(lb))
    IN  IF Len(a) + Len(b) = 0
        THEN [num |-> 1, den |-> 1]
        ELSE [num |-> 2 * matches, den |-> Len(a) + Len(b)]

\* the threshold 0.8 of the tag comparison, in tenths
SimilarityTenths == 8

\* similar_enough with the threshold excluded: similar(a, b) > 0.8
similar_enough_Strict(a, b) ==
    LET r == similar(a, b) IN 10 * r.num > SimilarityTenths * r.den

\* similar(a, b) >= 0.8
similar_enough(a, b) ==
    LET r == similar(a, b) IN 10 * r.num >= SimilarityTenths * r.den

(***************************************************************************)
(* The regular expression searches                                         *)
(***************************************************************************)

\* The characters with a meaning in a pattern among those the tag values of
\* the model are written with: "." matches any character, "(" opens a group;
\* no ")" occurs, so a pattern holding "(" does not compile (re.error).
\* Every other character of the model's tag values is a literal.
\* re.search(pattern, string, re.IGNORECASE): "match", "none" or "error"
re_search_ignorecase(pattern, string) ==
    LET At(i) == /\ i + Len(pattern) - 1 <= Len(string)
                 /\ \A k \in 1..Len(pattern) :
                       \/ pattern[k] = "." /\ string[i + k - 1] # "\n"
                       \/ LowerChar(pattern[k]) = LowerChar(string[i + k - 1])
    IN  IF "(" \in Range(pattern) THEN "error"
        ELSE IF \E i \in 1..(Len(string) + 1) : At(i) THEN "match"
        ELSE "none"

\* the last position of the run of digits (\d+, greedy) that starts at i
RECURSIVE DigitsEnd(_, _)
DigitsEnd(s, i) ==
    IF i + 1 <= Len(s) /\ IsDigit(s[i + 1]) THEN DigitsEnd(s, i + 1) ELSE i

\* the last position of the run of word characters (\w+, greedy) that starts at i
RECURSIVE WordEnd(_, _)
WordEnd(s, i) ==
    IF i + 1 <= Len(s) /\ IsWord(s[i + 1]) THEN WordEnd(s, i + 1) ELSE i

\* re.search(r'\d+ \w+', s): [found, group]; the leftmost match, each + greedy
re_search_unit(s) ==
    LET MatchAt(i) ==
            /\ IsDigit(s[i])
            /\ LET e == DigitsEnd(s, i)
               IN  /\ e + 2 <= Len(s)
                   /\ s[e + 1] = " "
                   /\ IsWord(s[e + 2])
    IN  IF \E i \in DOMAIN s : MatchAt(i)
        THEN LET i == CHOOSE i \in DOMAIN s :
                         MatchAt(i) /\ \A j \in 1..(i - 1) : ~MatchAt(j)
                 e == DigitsEnd(s, i)
             IN  [found |-> TRUE, group |-> Slice(s, i, WordEnd(s, e + 2))]
        ELSE [found |-> FALSE, group |-> <<>>]

\* re.search(r'\d+\.\d+%', s): [found, group]
re_search_percent(s) ==
    LET MatchAt(i) ==
            /\ IsDigit(s[i])
            /\ LET e == DigitsEnd(s, i)
               IN  /\ e + 2 <= Len(s)
                   /\ s[e + 1] = "."
                   /\ IsDigit(s[e + 2])
                   /\ LET f == DigitsEnd(s, e + 2)
                      IN  f + 1 <= Len(s) /\ s[f + 1] = "%"
    IN  IF \E i \in DOMAIN s : MatchAt(i)
        THEN LET i == CHOOSE i \in DOMAIN s :
                         MatchAt(i) /\ \A j \in 1..(i - 1) : ~MatchAt(j)
                 e == DigitsEnd(s, i)
                 f == DigitsEnd(s, e + 2)
             IN  [found |-> TRUE, group |-> Slice(s, i, f + 1)]
        ELSE [found |-> FALSE, group |-> <<>>]

\* int() of a text of decimal digits
RECURSIVE int_of(_)
int_of(s) ==
    IF s = <<>> THEN 0
    ELSE 10 * int_of(Slice(s, 1, Len(s) - 1)) + DigitValue(s[Len(s)])

RECURSIVE pow10(_)
pow10(n) == IF n = 0 THEN 1 ELSE 10 * pow10(n - 1)

\* float() of a text "digits.digits", as the fraction it denotes
float_of(s) ==
    LET parts == split(s, <<".">>)
    IN  [num |-> int_of(parts[1] \o parts[2]), den |-> pow10(Len(parts[2]))]

\* x > tol for a float x read from a text and a tolerance tol, which is a
\* fraction or sys.float_info.max (max = TRUE), above every text of the model
float_gt(x, tol) == ~tol.max /\ x.num * tol.den > tol.num * x.den

(***************************************************************************)
(* dict: the sequence of the items [k, v] in insertion order               *)
(***************************************************************************)

HasKey(d, k) == \E i \in DOMAIN d : d[i].k = k

\* d[k] for a key that is present
Get(d, k) == d[CHOOSE i \in DOMAIN d : d[i].k = k].v

\* d[k] = v: a present key keeps its place and takes the new value
dict_set(d, k, v) ==
    IF HasKey(d, k)
    THEN [i \in DOMAIN d |-> IF d[i].k = k THEN [k |-> k, v |-> v] ELSE d[i]]
    ELSE Append(d, [k |-> k, v |-> v])

(***************************************************************************)
(* tagInfo_to_tagStruct                                                    *)
(***************************************************************************)

\* What a call leaves behind: the exception that escaped it (raised, "" for
\* none), whether it returned None, and the dict it returned otherwise.
Returned(d) == [raised |-> "", none |-> FALSE, d |-> d]

ReturnedNone == [raised |-> "", none |-> TRUE, d |-> <<>>]

Raised(e) == [raised |-> e, none |-> FALSE, d |-> <<>>]

\* the body of the for loop in the try block, for one chunk f: the dict with
\* the entry added, or the bare except taken (failed)
tag_entry(d, f, splitKeyValue) ==
    IF splitKeyValue = <<>>
    THEN [failed |-> TRUE, d |-> d]             \* f.split(''): ValueError
    ELSE LET l_kv == lstrip(split(f, splitKeyValue))
         IN  IF Len(l_kv) < 2
             THEN [failed |-> TRUE, d |-> d]    \* l_kv[1]: IndexError
             ELSE [failed |-> FALSE, d |-> dict_set(d, l_kv[1], l_kv[2])]

\* the for loop over the chunks l_s[i..], stopped by the first failure
RECURSIVE tag_entries(_, _, _, _)
tag_entries(d, l_s, i, splitKeyValue) ==
    IF i > Len(l_s) THEN Returned(d)
    ELSE LET r == tag_entry(d, l_s[i], splitKeyValue)
         IN  IF r.failed THEN ReturnedNone
             ELSE tag_entries(r.d, l_s, i + 1, splitKeyValue)

tagInfo_to_tagStruct(opts) ==
    IF opts.tagInfo = <<>> THEN ReturnedNone
    ELSE IF opts.splitToken = <<>> THEN Raised("ValueError")
    ELSE tag_entries(<<>>, lstrip(split(opts.tagInfo, opts.splitToken)), 1,
                     opts.splitKeyValue)

(***************************************************************************)
(* analyze_measurements, check by check                                    *)
(***************************************************************************)

\* status at the start of a call
InitialStatus == [error |-> <<>>, exitCode |-> 0, flag |-> TRUE]

\* the messages appended to status['error']
MsgMismatch(row, expected, actual) ==
    [text |-> "does not match", args |-> <<row, expected, actual>>]

MsgUnavailable(ex) == [text |-> "not available for match", args |-> <<ex>>]

MsgUnit(unit, m_unit) ==
    [text |-> "Measurement units do not match", args |-> <<unit, m_unit>>]

MsgDifference ==
    [text |-> "Actual difference exceeds allowed difference", args |-> <<>>]

\* str() of the KeyError raised by details[row]
KeyErrorText(row) == <<"'">> \o row \o <<"'">>

\* str() of the re.error raised for a pattern that does not compile
ReErrorText == <<"missing ), unterminated subpattern">>

\* Failure without the assignment status['flag'] = False
Failure_KeepsFlag(st, msg, code) ==
    [error |-> Append(st.error, msg), exitCode |-> code, flag |-> st.flag]

\* status with one more failure recorded: the message, the exit code, flag False
Failure(st, msg, code) ==
    [error |-> Append(st.error, msg), exitCode |-> code, flag |-> FALSE]

\* load_record with a break at the end of the loop body: the first entry
load_record_First(data) ==
    IF data = <<>>
    THEN [details |-> <<>>, femur |-> <<>>, tibia |-> <<>>, total |-> <<>>]
    ELSE data[1]

\* the empty dicts of the start of the call, overwritten by every entry of
\* data in turn: what is left is the last entry
load_record(data) ==
    IF data = <<>>
    THEN [details |-> <<>>, femur |-> <<>>, tibia |-> <<>>, total |-> <<>>]
    ELSE data[Len(data)]

\* one round of the loop over tagStruct
tag_check(st, row, expected, dtls) ==
    IF ~HasKey(dtls, row)
    THEN Failure(st, MsgUnavailable(KeyErrorText(row)), 4)
    ELSE LET actual == Get(dtls, row)
         IN  IF similar_enough(expected, actual) THEN st
             ELSE LET m == re_search_ignorecase(expected, actual)
                  IN  IF m = "match" THEN st
                      ELSE IF m = "error"
                      THEN Failure(st, MsgUnavailable(ReErrorText), 4)
                      ELSE Failure(st, MsgMismatch(row, expected, actual), 1)

\* unit_check with the "return status" of the tag loop in force: after a
\* failing tag the unit is not looked at
unit_check_AfterReturn(st, tot, unit) ==
    IF ~st.flag THEN [raised |-> "", status |-> st]
    ELSE IF ~HasKey(tot, "Difference") THEN [raised |-> "KeyError", status |-> st]
    ELSE LET m == re_search_unit(Get(tot, "Difference"))
         IN  IF ~m.found THEN [raised |-> "AttributeError", status |-> st]
             ELSE LET m_unit == split_ws(m.group)[2]
                  IN  [raised |-> "",
                       status |-> IF m_unit # unit
                                  THEN Failure(st, MsgUnit(unit, m_unit), 2)
                                  ELSE st]

\* the unit check: [raised, status]
unit_check(st, tot, unit) ==
    IF ~HasKey(tot, "Difference") THEN [raised |-> "KeyError", status |-> st]
    ELSE LET m == re_search_unit(Get(tot, "Difference"))
         IN  IF ~m.found THEN [raised |-> "AttributeError", status |-> st]
             ELSE LET m_unit == split_ws(m.group)[2]
                  IN  [raised |-> "",
                       status |-> IF m_unit # unit
                                  THEN Failure(st, MsgUnit(unit, m_unit), 2)
                                  ELSE st]

\* re.search(r'\d+\.\d+%', part['Difference']).group().replace('%', ''):
\* [raised, text]
difference_text(part) ==
    IF ~HasKey(part, "Difference") THEN [raised |-> "KeyError", text |-> <<>>]
    ELSE LET m == re_search_percent(Get(part, "Difference"))
         IN  IF ~m.found THEN [raised |-> "AttributeError", text |-> <<>>]
             ELSE [raised |-> "", text |-> replace_char(m.group, "%")]

\* the condition of the last if: any of the three above its tolerance
exceeds(total_d, femur_d, tibia_d, tot_diff, fem_diff, tib_diff) ==
    \/ float_gt(float_of(total_d), tot_diff)
    \/ float_gt(float_of(femur_d), fem_diff)
    \/ float_gt(float_of(tibia_d), tib_diff)

\* the difference check: total, tibia and femur are read in this order, and
\* the first that fails raises; [raised, status]
difference_check(st, tot, tib, fem, tot_diff, tib_diff, fem_diff) ==
    LET t == difference_text(tot)
        b == difference_text(tib)
        f == difference_text(fem)
    IN  IF t.raised # "" THEN [raised |-> t.raised, status |-> st]
        ELSE IF b.raised # "" THEN [raised |-> b.raised, status |-> st]
        ELSE IF f.raised # "" THEN [raised |-> f.raised, status |-> st]
        ELSE [raised |-> "",
              status |-> IF exceeds(t.text, f.text, b.text,
                                    tot_diff, fem_diff, tib_diff)
                         THEN Failure(st, MsgDifference, 3)
                         ELSE st]

(***************************************************************************)
(* The run of main                                                         *)
(***************************************************************************)

VARIABLES
    options,    \* the parsed command line (argparse Namespace)
    files,      \* the input files in the mapper's order, each the loaded JSON
    pc,         \* where main is: "main", "mapper", "tags", "difference",
                \* "status", "done", "crashed"
    raised,     \* the exception that ended the run: [type, within]
    tagStruct,  \* main's tagStruct: [none, d]
    idx,        \* the number of input files the loop is done with
    ti,         \* analyze_measurements: the next item of tagStruct to check
    status,     \* the status dict under construction, then main's status
    details,    \* analyze_measurements' details, femur, tibia, total
    femur,
    tibia,
    total,
    written,    \* the writes of a verdict file so far: [file, status]
    copies,     \* the copytree calls so far: the file during which each ran
    calls,      \* the finished calls of analyze_measurements of this run:
                \* [data, raised, status]
    run,        \* "first", or "second": the same command on the same files
                \* met in the opposite order
    prevCalls   \* the calls of the first run, kept to compare the second with

vars == <<options, files, pc, raised, tagStruct, idx, ti, status, details,
          femur, tibia, total, written, copies, calls, run, prevCalls>>

locals == <<ti, status, details, femur, tibia, total>>

NoException == [type |-> "", within |-> ""]

\* the state main starts in, for the given command line and input files
Start(opts, fs) ==
    /\ options = opts
    /\ files = fs
    /\ pc = "main"
    /\ raised = NoException
    /\ tagStruct = Returned(<<>>)
    /\ idx = 0
    /\ ti = 1
    /\ status = InitialStatus
    /\ details = <<>>
    /\ femur = <<>>
    /\ tibia = <<>>
    /\ total = <<>>
    /\ written = <<>>
    /\ copies = <<>>
    /\ calls = <<>>

(***************************************************************************)
(* The inputs of the model                                                 *)
(***************************************************************************)

\* tag values
Apple     == <<"A", "p", "p", "l", "e">>
Appel     == <<"A", "p", "p", "e", "l">>       \* similar(Apple, Appel) = 0.8
Dimple    == <<"d", "i", "m", "p", "l", "e">>  \* similar(Apple, dimple) < 0.8
Pineapple == <<"p", "i", "n", "e", "a", "p", "p", "l", "e">>
TagA      == <<"A">>
TagB      == <<"B">>

\* --tagInfo texts
TagInfoOne   == <<"A", ":", "A", "p", "p", "l", "e">>
TagInfoTwo   == <<" ", "A", " ", ":", " ", "A", "p", "p", "l", "e", " ", ",", " ", "B", " ", ":", " ", "x", " ">>
TagInfoRev   == <<"B", ":", "x", ",", "A", ":", "A", "p", "p", "l", "e">>
TagInfoDup   == <<"A", ":", "x", ",", "A", ":", "A", "p", "p", "l", "e">>
TagInfoDot   == <<"A", ":", "A", ".", ".", "l", "e">>
TagInfoParen == <<"A", ":", "(">>
TagInfoThree == <<"A", ":", "x", ":", "y">>
TagInfoShort == <<"A">>
TagInfoMixed == <<"A", ":", "A", "p", "p", "l", "e", ",", "B">>

TagInfos == {<<>>, TagInfoOne, TagInfoTwo, TagInfoRev, TagInfoDup, TagInfoDot,
             TagInfoParen, TagInfoThree, TagInfoShort, TagInfoMixed}

Comma == <<",">>
Colon == <<":">>

\* --tagInfo, --splitToken, --splitKeyValue: every tagInfo with both
\* separators given, and a tagInfo with one separator left at its default ''
ParseOptions ==
    {<<t, Comma, Colon>> : t \in TagInfos}
        \cup {<<TagInfoOne, <<>>, Colon>>, <<TagInfoOne, Comma, <<>>>>}

\* --measurementsUnit
Mm == <<"m", "m">>
Cm == <<"c", "m">>

\* --limbDifference, --tibiaDifference, --femurDifference: the default
\* sys.float_info.max, or 2.0
FloatMax == [max |-> TRUE, num |-> 0, den |-> 1]
Two      == [max |-> FALSE, num |-> 2, den |-> 1]

Tolerances ==
    {<<FloatMax, FloatMax, FloatMax>>, <<Two, FloatMax, FloatMax>>,
     <<FloatMax, Two, FloatMax>>, <<FloatMax, FloatMax, Two>>, <<Two, Two, Two>>}

Options(parse, units, tols) ==
    {[tagInfo |-> p[1], splitToken |-> p[2], splitKeyValue |-> p[3],
      measurementsUnit |-> u,
      limbDifference |-> t[1], tibiaDifference |-> t[2], femurDifference |-> t[3]] :
        p \in parse, u \in units, t \in tols}

\* "Difference" texts
Mm15   == <<"3", " ", "m", "m", " ", "1", ".", "5", "%">>
Cm25   == <<"3", " ", "c", "m", " ", "2", ".", "5", "%">>
Mm05   == <<"1", " ", "m", "m", " ", "0", ".", "5", "%">>
Mm25   == <<"1", " ", "m", "m", " ", "2", ".", "5", "%">>
NoUnit == <<"1", ".", "5", "%">>     \* no match of \d+ \w+
NoPercent == <<"3", " ", "m", "m">>   \* no match of \d+\.\d+%
NoNumbers == <<"n", "o", " ", "n", "u", "m", "b", "e", "r", "s", " ", "h", "e", "r", "e">>

Difference(text) == <<[k |-> "Difference", v |-> text]>>

\* details dicts
Details(a, b) == <<[k |-> TagA, v |-> a], [k |-> TagB, v |-> b]>>

OnlyA(a) == <<[k |-> TagA, v |-> a]>>

X == <<"x">>

DetailsSet == {Details(Appel, X), Details(Dimple, X), OnlyA(Pineapple),
               OnlyA(Dimple), <<>>}

\* a record whose checks all run
Entry(d, t, b, f) ==
    [details |-> d, total |-> Difference(t), tibia |-> Difference(b),
     femur |-> Difference(f)]

GoodEntry == Entry(Details(Appel, X), Mm15, Mm05, Mm05)

BadEntry == Entry(OnlyA(Dimple), Cm25, Mm25, Mm05)

\* records in which a Difference is missing or holds no unit or no percentage
FaultyEntries ==
    {[GoodEntry EXCEPT !.total = <<>>],
     [GoodEntry EXCEPT !.total = Difference(NoUnit)],
     [GoodEntry EXCEPT !.total = Difference(NoPercent)],
     [GoodEntry EXCEPT !.total = Difference(NoNumbers)],
     [GoodEntry EXCEPT !.tibia = <<>>],
     [GoodEntry EXCEPT !.tibia = Difference(NoNumbers)],
     [GoodEntry EXCEPT !.femur = <<>>],
     [GoodEntry EXCEPT !.femur = Difference(NoPercent)]}

Entries ==
    {Entry(d, t, b, f) : d \in DetailsSet, t \in {Mm15, Cm25},
                         b \in {Mm05, Mm25}, f \in {Mm05, Mm25}}
        \cup FaultyEntries

\* the most entries in one input file, and the most input files in one run
MaxEntries == 2
MaxFiles == 2

\* the sequences over S of length lo..hi
SeqsOf(S, lo, hi) == UNION {[1..n -> S] : n \in lo..hi}

\* input files of several entries, or of none
DataObjects == SeqsOf({GoodEntry, BadEntry}, 0, MaxEntries)

\* the command lines of the runs over several files or several entries
FewOptions ==
    Options({<<TagInfoTwo, Comma, Colon>>, <<TagInfoShort, Comma, Colon>>},
            {Mm}, {<<Two, Two, Two>>})
        \cup Options({<<<<>>, <<>>, <<>>>>}, {Cm}, {<<FloatMax, FloatMax, FloatMax>>})

\* A run over no file or over one file of one entry takes any command line
\* and any entry; a run over files of several entries, or over several files,
\* takes the few command lines and the two entries above.
Init ==
    /\ run = "first"
    /\ prevCalls = <<>>
    /\ \/ \E opts \in Options(ParseOptions, {Mm, Cm}, Tolerances) :
            \E fs \in {<<>>} \cup {<<<<e>>>> : e \in Entries} : Start(opts, fs)
       \/ \E opts \in FewOptions :
            \E fs \in SeqsOf(DataObjects, 1, MaxFiles) : Start(opts, fs)


\* main up to the mapper: tagStruct = {} and, if a tagInfo is given, the parse
ParseTagInfo ==
    /\ pc = "main"
    /\ LET r == IF options.tagInfo # <<>>
                THEN tagInfo_to_tagStruct(options)
                ELSE Returned(<<>>)
       IN  IF r.raised # ""
           THEN /\ pc' = "crashed"
                /\ raised' = [type |-> r.raised, within |-> "tagInfo_to_tagStruct"]
                /\ UNCHANGED tagStruct
           ELSE /\ pc' = "mapper"
                /\ tagStruct' = r
                /\ UNCHANGED raised
    /\ UNCHANGED <<options, files, idx, locals, written, copies, calls, run,
                   prevCalls>>

\* the mapper has no further file: main returns
EndOfFiles ==
    /\ pc = "mapper"
    /\ idx = Len(files)
    /\ pc' = "done"
    /\ UNCHANGED <<options, files, raised, tagStruct, idx, locals, written,
                   copies, calls, run, prevCalls>>

\* AnalyzeEnter with status kept in a dict made once and used by every call
AnalyzeEnter_StaleStatus ==
    /\ pc = "mapper"
    /\ idx < Len(files)
    /\ LET rec == load_record(files[idx + 1])
       IN  /\ details' = rec.details
           /\ femur' = rec.femur
           /\ tibia' = rec.tibia
           /\ total' = rec.total
    /\ ti' = 1
    /\ pc' = "tags"
    /\ UNCHANGED <<options, files, raised, tagStruct, idx, status, written,
                   copies, calls, run, prevCalls>>

\* the next file is loaded and analyze_measurements called on it: the fresh
\* status and the loop over the entries of data
AnalyzeEnter ==
    /\ pc = "mapper"
    /\ idx < Len(files)
    /\ LET rec == load_record(files[idx + 1])
       IN  /\ details' = rec.details
           /\ femur' = rec.femur
           /\ tibia' = rec.tibia
           /\ total' = rec.total
    /\ status' = InitialStatus
    /\ ti' = 1
    /\ pc' = "tags"
    /\ UNCHANGED <<options, files, raised, tagStruct, idx, written, copies,
                   calls, run, prevCalls>>

\* an exception leaves analyze_measurements and, uncaught in main, ends the run
Escape(type) ==
    /\ pc' = "crashed"
    /\ raised' = [type |-> type, within |-> "analyze_measurements"]
    /\ calls' = Append(calls, [data |-> files[idx + 1], raised |-> type,
                               status |-> InitialStatus])

\* for row in tagStruct, when tagStruct is None
TagIterNone ==
    /\ pc = "tags"
    /\ tagStruct.none
    /\ Escape("TypeError")
    /\ UNCHANGED <<options, files, tagStruct, idx, locals, written, copies,
                   run, prevCalls>>

\* one round of the loop over tagStruct
TagCheck ==
    /\ pc = "tags"
    /\ ~tagStruct.none
    /\ ti <= Len(tagStruct.d)
    /\ status' = tag_check(status, tagStruct.d[ti].k, tagStruct.d[ti].v, details)
    /\ ti' = ti + 1
    /\ UNCHANGED <<options, files, pc, raised, tagStruct, idx, details, femur,
                   tibia, total, written, copies, calls, run, prevCalls>>

\* the loop over tagStruct is over: the unit check
UnitCheck ==
    /\ pc = "tags"
    /\ ~tagStruct.none
    /\ ti > Len(tagStruct.d)
    /\ LET r == unit_check(status, total, options.measurementsUnit)
       IN  IF r.raised # ""
           THEN /\ Escape(r.raised)
                /\ UNCHANGED status
           ELSE /\ pc' = "difference"
                /\ status' = r.status
                /\ UNCHANGED <<raised, calls>>
    /\ UNCHANGED <<options, files, tagStruct, idx, ti, details, femur, tibia,
                   total, written, copies, run, prevCalls>>

\* the difference check and the return of status
DifferenceCheck ==
    /\ pc = "difference"
    /\ LET r == difference_check(status, total, tibia, femur,
                                 options.limbDifference,
                                 options.tibiaDifference,
                                 options.femurDifference)
       IN  IF r.raised # ""
           THEN /\ Escape(r.raised)
                /\ UNCHANGED status
           ELSE /\ pc' = "status"
                /\ status' = r.status
                /\ calls' = Append(calls, [data |-> files[idx + 1],
                                           raised |-> "",
                                           status |-> r.status])
                /\ UNCHANGED raised
    /\ UNCHANGED <<options, files, tagStruct, idx, ti, details, femur, tibia,
                   total, written, copies, run, prevCalls>>

\* main with the returned status: the copy of the sibling files if the flag is
\* set, then the write of the verdict file
HandleStatus ==
    /\ pc = "status"
    /\ copies' = IF status.flag THEN Append(copies, idx + 1) ELSE copies
    /\ written' = Append(written, [file |-> idx + 1, status |-> status])
    /\ idx' = idx + 1
    /\ pc' = "mapper"
    /\ UNCHANGED <<options, files, raised, tagStruct, locals, calls, run,
                   prevCalls>>

Reverse(q) == [i \in DOMAIN q |-> q[Len(q) + 1 - i]]

\* The program is run again, with the same command line, on the same files,
\* which the mapper now yields in the opposite order.
RunAgain ==
    /\ pc \in {"done", "crashed"}
    /\ run = "first"
    /\ Len(files) > 1
    /\ run' = "second"
    /\ prevCalls' = calls
    /\ files' = Reverse(files)
    /\ pc' = "main"
    /\ raised' = NoException
    /\ tagStruct' = Returned(<<>>)
    /\ idx' = 0
    /\ ti' = 1
    /\ status' = InitialStatus
    /\ details' = <<>>
    /\ femur' = <<>>
    /\ tibia' = <<>>
    /\ total' = <<>>
    /\ written' = <<>>
    /\ copies' = <<>>
    /\ calls' = <<>>
    /\ UNCHANGED options

Next ==
    \/ ParseTagInfo
    \/ EndOfFiles
    \/ AnalyzeEnter
    \/ TagIterNone
    \/ TagCheck
    \/ UnitCheck
    \/ DifferenceCheck
    \/ HandleStatus
    \/ RunAgain

Spec == Init /\ [][Next]_vars

(***************************************************************************)
(* What the checks of a call should find, read off its arguments           *)
(***************************************************************************)

\* analyze_measurements has returned to main / has been left by an exception
HasReturned == pc = "status"

HasEscaped == pc = "crashed" /\ raised.within = "analyze_measurements"

\* similarity ratio at least 0.8 = 4/5
RatioAtLeast08(expected, actual) ==
    LET r == similar(expected, actual) IN 5 * r.num >= 4 * r.den

\* the i-th expected tag is found in details and its value matches
TagMatches(i) ==
    LET row == tagStruct.d[i].k
        expected == tagStruct.d[i].v
    IN  /\ HasKey(details, row)
        /\ \/ RatioAtLeast08(expected, Get(details, row))
           \/ re_search_ignorecase(expected, Get(details, row)) = "match"

TagAbsent(i) == ~HasKey(details, tagStruct.d[i].k)

\* the unit of total.Difference, when it can be extracted
UnitExtracted ==
    /\ HasKey(total, "Difference")
    /\ re_search_unit(Get(total, "Difference")).found

ExtractedUnit == split_ws(re_search_unit(Get(total, "Difference")).group)[2]

\* the percentage of a part, when it can be extracted
PercentExtracted(part) ==
    /\ HasKey(part, "Difference")
    /\ re_search_percent(Get(part, "Difference")).found

Percent(part) ==
    float_of(replace_char(re_search_percent(Get(part, "Difference")).group, "%"))

AnyExceeds ==
    \/ float_gt(Percent(total), options.limbDifference)
    \/ float_gt(Percent(tibia), options.tibiaDifference)
    \/ float_gt(Percent(femur), options.femurDifference)

FailingTags == {i \in DOMAIN tagStruct.d : ~TagMatches(i)}

Max(S) == CHOOSE x \in S : \A y \in S : y <= x

\* the finished calls of both runs
AllCalls == Range(calls) \cup Range(prevCalls)

Outcome(c) == <<c.raised, c.status>>

(***************************************************************************)
(* The claims                                                              *)
(***************************************************************************)

\* C1: no exception escapes analyze_measurements: called with a dict of
\* expected tags, it returns a verdict whatever the record holds.
C1_NoExceptionEscapes == ~tagStruct.none => ~HasEscaped

\* C2: in every verdict analyze_measurements returns, flag holds exactly when
\* the error list is empty, which is exactly when exitCode is 0, and exitCode
\* is one of 0..4.
Consistent(st) ==
    /\ st.flag <=> st.error = <<>>
    /\ st.error = <<>> <=> st.exitCode = 0
    /\ st.exitCode \in 0..4

C2_VerdictConsistent ==
    /\ HasReturned => Consistent(status)
    /\ \A c \in Range(calls) : c.raised = "" => Consistent(c.status)
    /\ \A i \in DOMAIN written : Consistent(written[i].status)

\* a verdict with a failing tag, a unit mismatch and a difference exceeded
C2_Witness ==
    /\ HasReturned
    /\ Len(status.error) >= 3
    /\ status.exitCode = 3

\* C3: the exitCode of a returned verdict is the category of the last failure
\* in the order tags, unit, difference: 3 if a difference exceeds, else 2 if
\* the unit differs, else for the last failing tag 4 if it is absent from
\* details and 1 if its value does not match, else 0.
LastFailure ==
    IF AnyExceeds THEN 3
    ELSE IF ExtractedUnit # options.measurementsUnit THEN 2
    ELSE IF FailingTags = {} THEN 0
    ELSE IF TagAbsent(Max(FailingTags)) THEN 4
    ELSE 1

C3_ExitCodeIsLastFailure == HasReturned => status.exitCode = LastFailure

\* C3 with 4 read as "the check of the tag raised": the tag is absent, or its
\* expected value does not compile as a pattern
TagRaises(i) ==
    \/ TagAbsent(i)
    \/ /\ ~RatioAtLeast08(tagStruct.d[i].v, Get(details, tagStruct.d[i].k))
       /\ re_search_ignorecase(tagStruct.d[i].v,
                               Get(details, tagStruct.d[i].k)) = "error"

C3_ExitCodeIsLastFailureOrRaise ==
    HasReturned =>
        status.exitCode =
            IF AnyExceeds THEN 3
            ELSE IF ExtractedUnit # options.measurementsUnit THEN 2
            ELSE IF FailingTags = {} THEN 0
            ELSE IF TagRaises(Max(FailingTags)) THEN 4
            ELSE 1

\* C4: nothing is skipped: the error list of a returned verdict holds one
\* message for every failing tag, in the order of tagStruct, then the unit
\* message if the unit differs, then the difference message if a difference
\* exceeds its tolerance, and nothing else.
TagMessage(i) ==
    LET row == tagStruct.d[i].k
        expected == tagStruct.d[i].v
    IN  IF TagAbsent(i) THEN MsgUnavailable(KeyErrorText(row))
        ELSE IF TagRaises(i) THEN MsgUnavailable(ReErrorText)
        ELSE MsgMismatch(row, expected, Get(details, row))

Indices(n) == [i \in 1..n |-> i]

ExpectedErrors ==
    LET failing == SelectSeq(Indices(Len(tagStruct.d)), LAMBDA i : ~TagMatches(i))
    IN  [k \in DOMAIN failing |-> TagMessage(failing[k])]
        \o (IF ExtractedUnit # options.measurementsUnit
            THEN <<MsgUnit(options.measurementsUnit, ExtractedUnit)>> ELSE <<>>)
        \o (IF AnyExceeds THEN <<MsgDifference>> ELSE <<>>)

C4_AllChecksRun == HasReturned => status.error = ExpectedErrors

\* two failing tags, then the unit, then the difference
C4_Witness ==
    /\ HasReturned
    /\ Cardinality(FailingTags) = 2
    /\ Len(status.error) = 4
    /\ status.error[3].text = "Measurement units do not match"
    /\ status.error[4] = MsgDifference

\* C5: when every expected tag matches (ratio at least 0.8 or the expected
\* value found in the actual one), the unit of total.Difference is the
\* expected unit and no percentage is above its tolerance, the call returns
\* flag True, no error and exitCode 0.
AllPass ==
    /\ ~tagStruct.none
    /\ \A i \in DOMAIN tagStruct.d : TagMatches(i)
    /\ UnitExtracted
    /\ ExtractedUnit = options.measurementsUnit
    /\ \A part \in {total, tibia, femur} : PercentExtracted(part)
    /\ ~AnyExceeds

C5_PassWhenAllMatch ==
    (HasReturned \/ HasEscaped) /\ AllPass =>
        /\ HasReturned
        /\ status = [error |-> <<>>, exitCode |-> 0, flag |-> TRUE]

\* a pass in which a tag matches by its ratio of exactly 0.8 alone
C5_Witness ==
    /\ HasReturned
    /\ AllPass
    /\ \E i \in DOMAIN tagStruct.d :
          LET r == similar(tagStruct.d[i].v, Get(details, tagStruct.d[i].k))
          IN  /\ 5 * r.num = 4 * r.den
              /\ re_search_ignorecase(tagStruct.d[i].v,
                                      Get(details, tagStruct.d[i].k)) = "none"

\* C6: when a chunk of tagInfo does not split on splitKeyValue into exactly
\* two parts, tagInfo_to_tagStruct fails: it returns no dict.
Chunks == lstrip(split(options.tagInfo, options.splitToken))

MalformedChunk(f) ==
    \/ options.splitKeyValue = <<>>
    \/ Len(split(f, options.splitKeyValue)) # 2

MalformedTagInfo ==
    /\ options.tagInfo # <<>>
    /\ options.splitToken # <<>>
    /\ \E i \in DOMAIN Chunks : MalformedChunk(Chunks[i])

C6_MalformedSpecFails ==
    pc # "main" /\ MalformedTagInfo =>
        tagStruct.none \/ raised.within = "tagInfo_to_tagStruct"

\* C7: once the parse of tagInfo has failed, analyze_measurements is never
\* called and no verdict file is written.
ParseFailed == tagStruct.none \/ raised.within = "tagInfo_to_tagStruct"

C7_NoValidationAfterFailedParse ==
    ParseFailed =>
        /\ pc \notin {"tags", "difference", "status"}
        /\ calls = <<>>
        /\ written = <<>>

\* C8: analyze_measurements is a function of its arguments: a call changes
\* neither the files nor tagStruct nor the options, and two calls on the same
\* data, in one run or in the two runs that meet the files in opposite
\* orders, end the same way with the same verdict.
SameDataSameVerdict ==
    \A c1, c2 \in AllCalls : c1.data = c2.data => Outcome(c1) = Outcome(c2)

ArgumentsUnchanged ==
    pc \in {"tags", "difference"} =>
        /\ files' = files
        /\ tagStruct' = tagStruct
        /\ options' = options

C8_PureFunction == [](SameDataSameVerdict) /\ [][ArgumentsUnchanged]_vars

\* the second run has validated two different files, the failing one first,
\* which the first run validated in the other order
C8_Witness ==
    /\ run = "second"
    /\ Len(calls) = 2
    /\ Len(prevCalls) = 2
    /\ calls[1].data # calls[2].data
    /\ calls[1].raised = "" /\ ~calls[1].status.flag
    /\ calls[2].raised = "" /\ calls[2].status.flag

\* C9: in a run whose tagInfo was parsed, every input file main has taken up
\* has exactly one verdict written, and the sibling files are copied while a
\* file is handled exactly when its verdict has flag True.
TakenUp == idx + (IF HasEscaped THEN 1 ELSE 0)

WritesOf(i) == {k \in DOMAIN written : written[k].file = i}

C9_OneVerdictPerFile ==
    ~ParseFailed /\ pc \in {"mapper", "done", "crashed"} =>
        \A i \in 1..TakenUp :
            /\ Cardinality(WritesOf(i)) = 1
            /\ \A k \in WritesOf(i) :
                  written[k].status.flag <=> i \in Range(copies)

\* C9 for the files whose validation returned
C9_OneVerdictPerValidatedFile ==
    /\ \A i \in 1..idx :
          /\ Cardinality(WritesOf(i)) = 1
          /\ \A k \in WritesOf(i) :
                written[k].status.flag <=> i \in Range(copies)
    /\ \A i \in Range(copies) \cup {written[k].file : k \in DOMAIN written} :
          i \in 1..idx

\* C10: the verdict depends on the last entry of the input object alone: two
\* calls whose data end with the same entry end the same way with the same
\* verdict, and the checks of a call read the last entry.
SameLastEntrySameVerdict ==
    \A c1, c2 \in AllCalls :
        /\ c1.data # <<>>
        /\ c2.data # <<>>
        /\ c1.data[Len(c1.data)] = c2.data[Len(c2.data)]
        => Outcome(c1) = Outcome(c2)

C10_OnlyLastEntry ==
    /\ SameLastEntrySameVerdict
    /\ pc \in {"tags", "difference"} /\ files[idx + 1] # <<>> =>
          LET last == files[idx + 1][Len(files[idx + 1])]
          IN  <<details, femur, tibia, total>>
                  = <<last.details, last.femur, last.tibia, last.total>>

\* a file whose first entry fails every check and whose last entry passes is
\* given the passing verdict of the file that holds the last entry alone
C10_Witness ==
    \E c1, c2 \in AllCalls :
        /\ c1.data = <<BadEntry, GoodEntry>>
        /\ c2.data = <<GoodEntry>>
        /\ c1.raised = ""
        /\ c1.status.flag
        /\ Outcome(c1) = Outcome(c2)

====
